---- MODULE Spec2Model ----
(***************************************************************************)
(* Model of the ChatKit panel controller (src/next.config.ts: ChatKitPanel *)
(* and extractErrorDetail) and of the two submission routes                *)
(* (src/app/api/quiz/submit/route.ts).                                     *)
(*                                                                         *)
(* JavaScript values are records [t, v]: t is the typeof-like tag and v    *)
(* the printed content, so that truthiness, typeof tests and the ??        *)
(* operator are computed the way the source computes them.                 *)
(***************************************************************************)
EXTENDS Integers, Sequences, FiniteSets, TLC

\* ------------------------------------------------------------------------
\* Bounds of the model
\* ------------------------------------------------------------------------

\* number of getClientSecret calls that may be in flight at once
MaxCalls == 2

\* number of entries of a survey action payload
MaxEntries == 2

\* number of manual restarts explored
MaxRestarts == 2

\* ------------------------------------------------------------------------
\* JavaScript values
\* ------------------------------------------------------------------------

NULL == "NULL"

Undef == [t |-> "undef", v |-> ""]

JNull == [t |-> "null", v |-> ""]

Str(s) == [t |-> "str", v |-> s]

Num(n) == [t |-> "num", v |-> n]

\* ToBoolean of a scalar
Truthy(x) ==
    CASE x.t = "str" -> x.v # ""
      [] x.t = "num" -> x.v # "0"
      [] x.t = "bool" -> x.v = "true"
      [] OTHER -> FALSE

\* a ?? b
Coalesce(a, b) == IF a.t \in {"undef", "null"} THEN b ELSE a

\* String(x ?? "")
ToStringOrEmpty(x) == IF x.t \in {"undef", "null"} THEN "" ELSE x.v

\* ------------------------------------------------------------------------
\* extractErrorDetail
\* ------------------------------------------------------------------------

\* a value that may be an object with an optional "message" member
Leaf1(x) == [t |-> x.t, v |-> x.v, has |-> FALSE, message |-> Undef]

Obj1(has, m) == [t |-> "obj", v |-> "", has |-> has, message |-> IF has THEN m ELSE Undef]

\* a value that may be an object with an optional "error" member
Leaf2(x) == [t |-> x.t, v |-> x.v, has |-> FALSE, error |-> Leaf1(Undef)]

Obj2(has, e) == [t |-> "obj", v |-> "", has |-> has, error |-> IF has THEN e ELSE Leaf1(Undef)]

\* a parsed response body: an object with the members the panel reads, or a
\* non-object JSON value (every member of which reads as undefined)
Payload(e, d, m, cs) ==
    [t |-> "obj", v |-> "", error |-> e, details |-> d, message |-> m, client_secret |-> cs]

NonObject(x) ==
    [t |-> x.t, v |-> x.v, error |-> Leaf1(Undef), details |-> Leaf2(Undef),
     message |-> Undef, client_secret |-> Undef]

EmptyObject == Payload(Leaf1(Undef), Leaf2(Undef), Undef, Undef)

\* !payload
PayloadFalsy(p) == p.t # "obj" /\ ~Truthy([t |-> p.t, v |-> p.v])

ExtractMessageFirst(payload, fallback) ==
    IF PayloadFalsy(payload) THEN fallback
    ELSE IF payload.message.t = "str" THEN payload.message.v
    ELSE IF payload.error.t = "str" THEN payload.error.v
    ELSE IF payload.error.t = "obj" /\ payload.error.has /\ payload.error.message.t = "str"
        THEN payload.error.message.v
    ELSE IF payload.details.t = "str" THEN payload.details.v
    ELSE IF payload.details.t = "obj" /\ payload.details.has
            /\ payload.details.error.t = "str"
        THEN payload.details.error.v
    ELSE IF payload.details.t = "obj" /\ payload.details.has
            /\ payload.details.error.t = "obj" /\ payload.details.error.has
            /\ payload.details.error.message.t = "str"
        THEN payload.details.error.message.v
    ELSE fallback

ExtractErrorDetail(payload, fallback) ==
    IF PayloadFalsy(payload) THEN fallback
    ELSE IF payload.error.t = "str" THEN payload.error.v
    ELSE IF payload.error.t = "obj" /\ payload.error.has /\ payload.error.message.t = "str"
        THEN payload.error.message.v
    ELSE IF payload.details.t = "str" THEN payload.details.v
    ELSE IF payload.details.t = "obj" /\ payload.details.has
            /\ payload.details.error.t = "str"
        THEN payload.details.error.v
    ELSE IF payload.details.t = "obj" /\ payload.details.has
            /\ payload.details.error.t = "obj" /\ payload.details.error.has
            /\ payload.details.error.message.t = "str"
        THEN payload.details.error.message.v
    ELSE IF payload.message.t = "str" THEN payload.message.v
    ELSE fallback

\* ------------------------------------------------------------------------
\* Text of the survey action: strings are sequences of one-character strings,
\* so that startsWith, replace and the title-casing are computed
\* ------------------------------------------------------------------------

\* "q4_"
Q4Prefix == <<"q", "4", "_">>

\* "none"
NoneOption == <<"n", "o", "n", "e">>

\* the literal "None"
NoneLiteral == <<"N", "o", "n", "e">>

\* k.startsWith(p)
StartsWith(k, p) == Len(k) >= Len(p) /\ SubSeq(k, 1, Len(p)) = p

\* k.replace(/^q4_/, "")
StripQ4(k) == IF StartsWith(k, Q4Prefix) THEN SubSeq(k, Len(Q4Prefix) + 1, Len(k)) ELSE k

\* arr.includes(x)
Includes(arr, x) == \E i \in 1..Len(arr) : arr[i] = x

\* a survey value [t, c]: c is String(value), spelled in characters
SvStr(c) == [t |-> "str", c |-> c]

SvBool(b) == [t |-> "bool", c |-> IF b THEN <<"t", "r", "u", "e">> ELSE <<"f", "a", "l", "s", "e">>]

SvNum0 == [t |-> "num", c |-> <<"0">>]

SvNull == [t |-> "null", c |-> <<"n", "u", "l", "l">>]

\* ToBoolean of a survey value
SvTruthy(x) ==
    CASE x.t = "str" -> x.c # <<>>
      [] x.t = "bool" -> x.c = <<"t", "r", "u", "e">>
      [] x.t = "num" -> x.c # <<"0">>
      [] OTHER -> FALSE

\* k in payload
HasKey(payload, k) == \E i \in 1..Len(payload) : payload[i].k = k

\* pick(k): payload && k in payload ? payload[k] : null
Pick(payload, k) ==
    IF HasKey(payload, k)
        THEN (CHOOSE e \in {payload[i] : i \in 1..Len(payload)} : e.k = k).val
        ELSE SvNull

IsQ4Flag(e) == StartsWith(e.k, Q4Prefix) /\ SvTruthy(e.val)

\* Object.entries(payload).filter(...).map(...)
CollectQ4(payload) ==
    LET flagged == SelectSeq(payload, IsQ4Flag)
    IN  [i \in 1..Len(flagged) |-> StripQ4(flagged[i].k)]

AllergiesNoCollapse(payload) == CollectQ4(payload)

\* the q4 list of the normalized survey
Allergies(payload) ==
    LET collected == CollectQ4(payload)
    IN  IF Includes(collected, NoneOption) THEN <<NoneOption>> ELSE collected

LowerLetters == <<"a", "e", "f", "l", "n", "o", "p", "q", "r", "s", "t", "u", "x", "y">>

UpperLetters == <<"A", "E", "F", "L", "N", "O", "P", "Q", "R", "S", "T", "U", "X", "Y">>

\* c.toUpperCase()
ToUpper(c) ==
    IF \E i \in 1..Len(LowerLetters) : LowerLetters[i] = c
        THEN UpperLetters[CHOOSE i \in 1..Len(LowerLetters) : LowerLetters[i] = c]
        ELSE c

\* \w of a regular expression
IsWordChar(c) ==
    \/ \E i \in 1..Len(LowerLetters) : LowerLetters[i] = c \/ UpperLetters[i] = c
    \/ c \in {"0", "1", "4", "5", "_"}

\* s.replace(/[-_]/g, " ")
SeparatorsToSpaces(s) == [i \in 1..Len(s) |-> IF s[i] \in {"-", "_"} THEN " " ELSE s[i]]

\* s.replace(/\b\w/g, c => c.toUpperCase())
TitleCase(s) ==
    [i \in 1..Len(s) |->
        IF IsWordChar(s[i]) /\ (i = 1 \/ ~IsWordChar(s[i - 1])) THEN ToUpper(s[i]) ELSE s[i]]

\* pretty(v), v a string
PrettyText(s) == TitleCase(SeparatorsToSpaces(s))

\* pretty(v)
Pretty(x) == IF x.t = "str" THEN PrettyText(x.c) ELSE x.c

RECURSIVE JoinComma(_)
\* arr.join(", ")
JoinComma(arr) ==
    IF Len(arr) = 0 THEN <<>>
    ELSE IF Len(arr) = 1 THEN arr[1]
    ELSE arr[1] \o <<",", " ">> \o JoinComma(Tail(arr))

\* list(arr): the q4 list holds strings only
ListText(arr) ==
    IF Len(arr) = 0 THEN NoneLiteral
    ELSE JoinComma([i \in 1..Len(arr) |-> PrettyText(arr[i])])

\* the normalized survey record
NormalizeSurvey(payload) ==
    [q1 |-> Pick(payload, <<"q", "1">>),
     q2 |-> Pick(payload, <<"q", "2">>),
     q3 |-> Pick(payload, <<"q", "3">>),
     q4 |-> Allergies(payload),
     q5 |-> Pick(payload, <<"q", "5">>),
     q6 |-> Pick(payload, <<"q", "6">>),
     q7 |-> Pick(payload, <<"q", "7">>),
     q8 |-> Pick(payload, <<"q", "8">>)]

\* the summary text, by line
SurveySummary(survey) ==
    [kind |-> "survey-summary",
     skinType |-> Pretty(survey.q1),
     concern |-> Pretty(survey.q2),
     allergies |-> ListText(survey.q4),
     preference |-> Pretty(survey.q5),
     routine |-> Pretty(survey.q6),
     sensitivity |-> Pretty(survey.q7),
     results |-> Pretty(survey.q8)]

\* ------------------------------------------------------------------------
\* The submission routes
\* ------------------------------------------------------------------------

RouteOk == [status |-> 200, ok |-> TRUE, error |-> NULL]

RouteError(status, msg) == [status |-> status, ok |-> FALSE, error |-> msg]

\* POST /api/quiz/submit; body: [kind, quizId, answer], kind "unparsable", "null"
\* (the JSON text null) or "obj"
QuizPOST(body) ==
    IF body.kind = "null" THEN RouteError(500, "Internal error")
    ELSE LET quizId == IF body.kind = "obj" THEN body.quizId ELSE Undef
             answer == IF body.kind = "obj" THEN body.answer ELSE Undef
         IN  IF ~Truthy(quizId) \/ ~Truthy(answer)
                 THEN RouteError(400, "Missing quizId or answer")
                 ELSE RouteOk

\* POST /api/survey/submit; body: [kind, q1, q2, q3], survey values
SurveyPOST(body) ==
    LET q1 == IF body.kind = "obj" THEN body.q1 ELSE SvNull
        q2 == IF body.kind = "obj" THEN body.q2 ELSE SvNull
        q3 == IF body.kind = "obj" THEN body.q3 ELSE SvNull
    IN  IF ~SvTruthy(q1) \/ ~SvTruthy(q2) \/ ~SvTruthy(q3)
            THEN RouteError(400, "Missing required fields")
            ELSE RouteOk

\* res.ok
StatusOk(status) == status >= 200 /\ status <= 299

\* ------------------------------------------------------------------------
\* The panel controller: state
\* ------------------------------------------------------------------------

VARIABLES
    workflowId,             \* WORKFLOW_ID, spelled in characters
    phase,                  \* "constructed" (rendered, effects not yet run), "mounted", "unmounted"
    isMountedRef,           \* isMountedRef.current
    registered,             \* window.customElements.get("openai-chatkit") is defined
    probeAtConstruction,    \* what the initializer of scriptStatus found
    scriptStatus,
    errors,                 \* ErrorState
    isInitializingSession,
    widgetInstanceKey,
    timeoutId,              \* TRUE while the 5000 ms timer is armed
    kitRef,                 \* kitRef.current: "null" or "element"
    calls,                  \* the getClientSecret calls in flight
    gcsResult,              \* what the last settled getClientSecret call returned or threw
    processedFacts,         \* processedFacts.current
    savesSinceClear,        \* onWidgetAction calls per fact id since the set was last cleared
    lastSave,               \* the last FactAction handed to onWidgetAction
    toolResult,             \* what the last onClientTool call returned
    themeRequest,           \* the last scheme handed to onThemeRequest
    act,                    \* the widgets.onAction dispatch in progress
    extraction,             \* a call of extractErrorDetail: its arguments and result
    routeCall,              \* a request to a submission route and the route's answer
    sink,                   \* the last entry written to the console by a diagnostic callback
    race                    \* history of the calls in flight: their start order, which of
                            \* them a later-started call has overtaken with a credential

panelVars ==
    <<workflowId, phase, isMountedRef, registered, probeAtConstruction, scriptStatus, errors,
      isInitializingSession, widgetInstanceKey, timeoutId, kitRef>>

gcsVars == <<calls, gcsResult, race>>

toolVars == <<processedFacts, savesSinceClear, lastSave, toolResult, themeRequest>>

vars == <<panelVars, gcsVars, toolVars, act, extraction, routeCall, sink>>

\* "wf_replace"
PlaceholderPrefix == <<"w", "f", "_", "r", "e", "p", "l", "a", "c", "e">>

\* the values of WORKFLOW_ID explored: unset, the placeholder, the placeholder
\* with a suffix, a real identifier, and one that only contains the placeholder
WorkflowIds ==
    { <<>>,
      PlaceholderPrefix,
      PlaceholderPrefix \o <<"_", "m", "e">>,
      <<"w", "f", "_", "6", "8">>,
      <<"x">> \o PlaceholderPrefix }

ConfigMessage == "Set NEXT_PUBLIC_CHATKIT_WORKFLOW_ID in your .env.local file."

MissingSecretMessage == "Missing client secret in response"

UnavailableDetail ==
    "ChatKit web component is unavailable. Verify that the script URL is reachable."

\* the placeholder test alone forgotten: any non-empty identifier counts
ConfiguredIfNonEmpty(id) == id # <<>>

\* Boolean(WORKFLOW_ID && !WORKFLOW_ID.startsWith("wf_replace"))
WorkflowConfigured(id) == id # <<>> /\ ~StartsWith(id, PlaceholderPrefix)

isWorkflowConfigured == WorkflowConfigured(workflowId)

createInitialErrors ==
    [script |-> NULL, session |-> NULL, integration |-> NULL, retryable |-> FALSE]

\* `${x}` of a scalar
TemplateText(x) ==
    CASE x.t = "undef" -> "undefined"
      [] x.t = "null" -> "null"
      [] OTHER -> x.v

\* The React state of the panel as one record, so that a handler and the
\* effects it triggers compose
Current == [status |-> scriptStatus, errors |-> errors, init |-> isInitializingSession]

Commit(r) ==
    /\ scriptStatus' = r.status
    /\ errors' = r.errors
    /\ isInitializingSession' = r.init

\* handleLoaded
HandleLoaded(r) ==
    IF ~isMountedRef THEN r
    ELSE [r EXCEPT !.status = "ready", !.errors.script = NULL]

\* handleError without its setScriptStatus("error")
HandleErrorKeepsStatus(r, detail) ==
    IF ~isMountedRef THEN r
    ELSE [r EXCEPT !.errors.script = "Error: " \o TemplateText(Coalesce(detail, Str("unknown error"))),
                   !.errors.retryable = FALSE,
                   !.init = FALSE]

\* handleError(event)
HandleError(r, detail) ==
    IF ~isMountedRef THEN r
    ELSE [r EXCEPT !.status = "error",
                   !.errors.script = "Error: " \o TemplateText(Coalesce(detail, Str("unknown error"))),
                   !.errors.retryable = FALSE,
                   !.init = FALSE]

\* The script-readiness effect, run with state r: the probe of the element
\* and what it arms. [r, timer]
ScriptEffect(r) ==
    IF registered THEN [r |-> HandleLoaded(r), timer |-> FALSE]
    ELSE [r |-> r, timer |-> (r.status = "pending")]

\* The render that follows a handler: the script-readiness effect runs again
\* (cleanup, then body) when scriptStatus, its dependency, changed; a change
\* made by that run makes it run once more. timer is the timer's state after
\* the handler.
AfterRender(r, timer) ==
    IF phase # "mounted" \/ r.status = scriptStatus THEN [r |-> r, timer |-> timer]
    ELSE LET first == ScriptEffect(r)
         IN  IF first.r.status = r.status THEN first ELSE ScriptEffect(first.r)

\* the effect of lines 136-144
ConfigEffect(r) ==
    IF ~isWorkflowConfigured /\ isMountedRef
        THEN [r EXCEPT !.errors.session = ConfigMessage, !.errors.retryable = FALSE,
                       !.init = FALSE]
        ELSE r

\* the fact identifiers record_fact may be invoked with, after String()
FactIds == {"", "f1", "f2", "0"}

NoSave == [type |-> "none", factId |-> "", factText |-> <<>>]

NoToolResult == [called |-> FALSE, success |-> FALSE]

\* line 75-77 and line 149: the probe of the custom element
InitialScriptStatus(isRegistered) == IF isRegistered THEN "ready" ELSE "pending"

NoCall == [pc |-> "idle", hadSecret |-> FALSE]

\* what the Session Endpoint answered: a network failure (fetch or the read of
\* the body rejects with error), or a status with a body
NetworkFailure(msg) ==
    [net |-> TRUE, ok |-> FALSE, statusText |-> "", kind |-> "empty", data |-> EmptyObject,
     error |-> msg]

\* kind: "empty" (no text), "nonjson" (text JSON.parse rejects) or "json"
Http(ok, statusText, kind, data) ==
    [net |-> FALSE, ok |-> ok, statusText |-> statusText, kind |-> kind, data |-> data,
     error |-> ""]

NoResponse == Http(FALSE, "", "empty", EmptyObject)

NoResult == [kind |-> "none", secret |-> Undef, message |-> NULL]

NoMessage == <<>>

\* no dispatch has been made
IdleAct ==
    [pc |-> "idle", tag |-> "none", el |-> FALSE, payload |-> <<>>, reply |-> Undef,
     quizId |-> Undef, answer |-> Undef, q4 |-> <<>>, allergies |-> <<>>,
     confirmation |-> NoMessage, apology |-> NoMessage,
     posted |-> FALSE, response |-> "none", messages |-> <<>>,
     result |-> [kind |-> "none", ok |-> FALSE]]

NoExtraction == [payload |-> EmptyObject, fallback |-> "", called |-> FALSE, result |-> NULL]

\* a request body as a route reads it: kind "unparsable" (req.json() rejects),
\* "null" (the JSON text null), "scalar" (any other JSON text that is no
\* object) or "obj", with the members the routes look at
RouteBody(kind, quizId, answer, q1, q2, q3) ==
    [kind |-> kind, quizId |-> quizId, answer |-> answer, q1 |-> q1, q2 |-> q2, q3 |-> q3]

NoRouteCall ==
    [route |-> "none", body |-> RouteBody("unparsable", Undef, Undef, SvNull, SvNull, SvNull),
     answered |-> FALSE, response |-> [status |-> 0, ok |-> FALSE, error |-> NULL]]


InitPanel ==
    /\ workflowId \in WorkflowIds
    /\ phase = "constructed"
    /\ isMountedRef = TRUE
    /\ registered \in BOOLEAN
    /\ probeAtConstruction = registered
    /\ scriptStatus = InitialScriptStatus(registered)
    /\ errors = createInitialErrors
    /\ isInitializingSession = TRUE
    /\ widgetInstanceKey = 0
    /\ timeoutId = FALSE
    /\ kitRef = "null"
    /\ calls = [c \in 1..MaxCalls |-> NoCall]
    /\ gcsResult = NoResult
    /\ processedFacts = {}
    /\ savesSinceClear = [id \in FactIds |-> 0]
    /\ lastSave = NoSave
    /\ toolResult = NoToolResult
    /\ themeRequest = NULL
    /\ sink = [level |-> "none", label |-> ""]
    /\ race = [order |-> <<>>, stale |-> {}, lastStale |-> FALSE]

Init ==
    /\ InitPanel
    /\ act = IdleAct
    /\ extraction = NoExtraction
    /\ routeCall = NoRouteCall

\* ------------------------------------------------------------------------
\* Mounting, the script-readiness probe and teardown
\* ------------------------------------------------------------------------

\* The first commit: the ref is attached and the effects run in order
Mount ==
    /\ phase = "constructed"
    /\ phase' = "mounted"
    /\ kitRef' = "element"
    /\ LET probe == ScriptEffect(Current)
       IN  /\ Commit(ConfigEffect(probe.r))
           /\ timeoutId' = probe.timer
    /\ UNCHANGED <<workflowId, isMountedRef, registered, probeAtConstruction,
                   widgetInstanceKey, gcsVars, toolVars, act, extraction, routeCall, sink>>

\* Teardown: the cleanups of the effects; the ref is detached
Unmount ==
    /\ phase = "mounted"
    /\ phase' = "unmounted"
    /\ isMountedRef' = FALSE
    /\ timeoutId' = FALSE
    /\ kitRef' = "null"
    /\ UNCHANGED <<workflowId, registered, probeAtConstruction, scriptStatus, errors,
                   isInitializingSession, widgetInstanceKey, gcsVars, toolVars, act,
                   extraction, routeCall, sink>>

\* The widget script defines the custom element
RegisterElement ==
    /\ ~registered
    /\ registered' = TRUE
    /\ UNCHANGED <<workflowId, phase, isMountedRef, probeAtConstruction, scriptStatus, errors,
                   isInitializingSession, widgetInstanceKey, timeoutId, kitRef, gcsVars,
                   toolVars, act, extraction, routeCall, sink>>

\* Applies the handler's result and the render it causes
Settle(r, timer) ==
    LET after == AfterRender(r, timer)
    IN  /\ Commit(after.r)
        /\ timeoutId' = after.timer

\* window event "chatkit-script-loaded", while the listener is registered
ScriptLoadedSignal ==
    /\ phase = "mounted"
    /\ Settle(HandleLoaded(Current), timeoutId)
    /\ UNCHANGED <<workflowId, phase, isMountedRef, registered, probeAtConstruction,
                   widgetInstanceKey, kitRef, gcsVars, toolVars, act, extraction, routeCall, sink>>

\* the details a "chatkit-script-error" event may carry
ErrorDetails == {Undef, Str("load failed")}

\* window event "chatkit-script-error", while the listener is registered
ScriptErrorSignal(detail) ==
    /\ phase = "mounted"
    /\ Settle(HandleError(Current, detail), timeoutId)
    /\ UNCHANGED <<workflowId, phase, isMountedRef, registered, probeAtConstruction,
                   widgetInstanceKey, kitRef, gcsVars, toolVars, act, extraction, routeCall, sink>>

\* what the timer's callback does to the state
TimeoutCallback(r) ==
    IF ~registered THEN HandleError(r, Str(UnavailableDetail)) ELSE r

\* The 5000 ms timer fires
TimerFires ==
    /\ timeoutId
    /\ Settle(TimeoutCallback(Current), FALSE)
    /\ UNCHANGED <<workflowId, phase, isMountedRef, registered, probeAtConstruction,
                   widgetInstanceKey, kitRef, gcsVars, toolVars, act, extraction, routeCall, sink>>

\* ------------------------------------------------------------------------
\* getClientSecret
\* ------------------------------------------------------------------------

WithSecret(cs) == Payload(Leaf1(Undef), Leaf2(Undef), Undef, cs)

WithError(e) == Payload(Leaf1(Str(e)), Leaf2(Undef), Undef, Undef)

\* the answers of the Session Endpoint explored
SessionResponses ==
    { NetworkFailure("Failed to fetch"),
      Http(TRUE, "OK", "json", WithSecret(Str("cs_1"))),
      Http(TRUE, "OK", "json", WithSecret(Str("cs_2"))),
      Http(TRUE, "OK", "json", WithSecret(Str(""))),
      Http(TRUE, "OK", "json", EmptyObject),
      Http(TRUE, "OK", "json", WithError("A")),
      Http(TRUE, "OK", "json", NonObject(JNull)),
      Http(TRUE, "OK", "empty", EmptyObject),
      Http(TRUE, "OK", "nonjson", EmptyObject),
      Http(FALSE, "Bad Request", "json", WithError("A")),
      Http(FALSE, "Bad Request", "json", WithSecret(Str("cs_1"))),
      Http(FALSE, "Bad Request", "empty", EmptyObject),
      Http(FALSE, "", "nonjson", EmptyObject) }

\* the currentSecret arguments explored
CurrentSecrets == {JNull, Str("cs_0")}

\* raw ? JSON.parse(raw), {} when it throws : {}
ParseBody(resp) == IF resp.kind = "json" THEN resp.data ELSE EmptyObject

Returned(cs) == [kind |-> "returned", secret |-> cs, message |-> NULL]

Rejected(msg) == [kind |-> "rejected", secret |-> Undef, message |-> msg]

\* the check of line 196 forgotten
RequestOutcomeUnchecked(resp) ==
    IF resp.net THEN Rejected(resp.error)
    ELSE LET data == ParseBody(resp)
         IN  IF ~resp.ok THEN Rejected(ExtractErrorDetail(data, resp.statusText))
             ELSE Returned(data.client_secret)

\* The try block of getClientSecret on a response: what it returns or throws
RequestOutcome(resp) ==
    IF resp.net THEN Rejected(resp.error)
    ELSE LET data == ParseBody(resp)
         IN  IF ~resp.ok THEN Rejected(ExtractErrorDetail(data, resp.statusText))
             ELSE IF ~Truthy(data.client_secret) THEN Rejected(MissingSecretMessage)
             ELSE Returned(data.client_secret)

\* lines 160-163
GcsUnconfiguredState(r) ==
    IF isMountedRef
        THEN [r EXCEPT !.errors.session = ConfigMessage, !.errors.retryable = FALSE,
                       !.init = FALSE]
        ELSE r

\* the call resets every slot before its request
GcsStartStateClearsAll(r, hadSecret) ==
    IF isMountedRef
        THEN [r EXCEPT !.init = IF ~hadSecret THEN TRUE ELSE @,
                       !.errors = createInitialErrors]
        ELSE r

\* lines 167-170
GcsStartState(r, hadSecret) ==
    IF isMountedRef
        THEN [r EXCEPT !.init = IF ~hadSecret THEN TRUE ELSE @,
                       !.errors.session = NULL,
                       !.errors.integration = NULL,
                       !.errors.retryable = FALSE]
        ELSE r

\* line 198 forgotten
GcsSuccessStateKept(r) == r

\* line 198
GcsSuccessState(r) ==
    IF isMountedRef
        THEN [r EXCEPT !.errors.session = NULL, !.errors.integration = NULL]
        ELSE r

\* the catch block drops a failure that arrives after a credential was returned
GcsFailureStateDropsStale(r, msg) ==
    IF isMountedRef /\ gcsResult.kind # "returned"
        THEN [r EXCEPT !.errors.session = msg, !.errors.retryable = FALSE]
        ELSE r

\* the catch block without its check of isMountedRef
GcsFailureStateUnguarded(r, msg) ==
    [r EXCEPT !.errors.session = msg, !.errors.retryable = FALSE]

\* the catch block marks the failure retryable
GcsFailureStateRetryable(r, msg) ==
    IF isMountedRef
        THEN [r EXCEPT !.errors.session = msg, !.errors.retryable = TRUE]
        ELSE r

\* the catch block reports the failure as an integration error
GcsFailureStateMisfiled(r, msg) ==
    IF isMountedRef
        THEN [r EXCEPT !.errors.integration = msg, !.errors.retryable = FALSE]
        ELSE r

\* line 203
GcsFailureState(r, msg) ==
    IF isMountedRef
        THEN [r EXCEPT !.errors.session = msg, !.errors.retryable = FALSE]
        ELSE r

\* the finally block clears the flag after a refresh as well
GcsFinallyStateAlways(r, hadSecret) ==
    IF isMountedRef THEN [r EXCEPT !.init = FALSE] ELSE r

\* line 206
GcsFinallyState(r, hadSecret) ==
    IF isMountedRef /\ ~hadSecret THEN [r EXCEPT !.init = FALSE] ELSE r

\* getClientSecret(currentSecret) is called: it runs to its throw (no
\* configuration) or to its fetch
GcsCalled(c, currentSecret) ==
    /\ phase # "constructed"
    /\ calls[c].pc = "idle"
    /\ IF ~isWorkflowConfigured
        THEN /\ Settle(GcsUnconfiguredState(Current), timeoutId)
             /\ gcsResult' = Rejected(ConfigMessage)
             /\ UNCHANGED calls
        ELSE /\ Settle(GcsStartState(Current, Truthy(currentSecret)), timeoutId)
             /\ calls' = [calls EXCEPT ![c] = [pc |-> "fetching",
                                               hadSecret |-> Truthy(currentSecret)]]
             /\ UNCHANGED gcsResult
    /\ UNCHANGED <<workflowId, phase, isMountedRef, registered, probeAtConstruction,
                   widgetInstanceKey, kitRef, toolVars, act, extraction, routeCall, sink>>

GcsStart(c, currentSecret) == GcsCalled(c, currentSecret) /\ UNCHANGED race

\* The request of call c settles with resp: the rest of the try block, the
\* catch block and the finally block
GcsSettled(c, resp) ==
    /\ calls[c].pc = "fetching"
    /\ LET out == RequestOutcome(resp)
           had == calls[c].hadSecret
           r1  == IF out.kind = "returned" THEN GcsSuccessState(Current)
                  ELSE GcsFailureState(Current, out.message)
       IN  /\ Settle(GcsFinallyState(r1, had), timeoutId)
           /\ gcsResult' = out
    /\ calls' = [calls EXCEPT ![c] = NoCall]
    /\ UNCHANGED <<workflowId, phase, isMountedRef, registered, probeAtConstruction,
                   widgetInstanceKey, kitRef, toolVars, act, extraction, routeCall, sink>>

GcsSettle(c, resp) == GcsSettled(c, resp) /\ UNCHANGED race

\* onResponseStart
OnResponseStart ==
    /\ phase # "constructed"
    /\ Settle([Current EXCEPT !.errors.integration = NULL, !.errors.retryable = FALSE],
              timeoutId)
    /\ UNCHANGED <<workflowId, phase, isMountedRef, registered, probeAtConstruction,
                   widgetInstanceKey, kitRef, gcsVars, toolVars, act, extraction, routeCall, sink>>

Next ==
    \/ Mount
    \/ Unmount
    \/ RegisterElement
    \/ ScriptLoadedSignal
    \/ \E detail \in ErrorDetails : ScriptErrorSignal(detail)
    \/ TimerFires
    \/ \E c \in 1..MaxCalls, cs \in CurrentSecrets : GcsStart(c, cs)
    \/ \E c \in 1..MaxCalls, resp \in SessionResponses : GcsSettle(c, resp)
    \/ OnResponseStart

Spec == Init /\ [][Next]_vars

\* handleResetChat without its processedFacts.current.clear()
HandleResetChatKeepsFacts ==
    /\ phase # "constructed"
    /\ widgetInstanceKey < MaxRestarts
    /\ Settle([status |-> InitialScriptStatus(registered), errors |-> createInitialErrors,
               init |-> TRUE], timeoutId)
    /\ widgetInstanceKey' = widgetInstanceKey + 1
    /\ UNCHANGED <<workflowId, phase, isMountedRef, registered, probeAtConstruction, kitRef,
                   gcsVars, toolVars, act, extraction, routeCall, sink>>

\* handleResetChat
HandleResetChat ==
    /\ phase # "constructed"
    /\ widgetInstanceKey < MaxRestarts
    /\ processedFacts' = {}
    /\ savesSinceClear' = [id \in FactIds |-> 0]
    /\ Settle([status |-> InitialScriptStatus(registered), errors |-> createInitialErrors,
               init |-> TRUE], timeoutId)
    /\ widgetInstanceKey' = widgetInstanceKey + 1
    /\ UNCHANGED <<workflowId, phase, isMountedRef, registered, probeAtConstruction, kitRef,
                   gcsVars, lastSave, toolResult, themeRequest, act, extraction, routeCall, sink>>

\* ------------------------------------------------------------------------
\* onClientTool and onThreadChange
\* ------------------------------------------------------------------------

IsSpace(c) == c \in {" ", "\n", "\t"}

RECURSIVE DropSpaces(_)
DropSpaces(s) == IF s # <<>> /\ IsSpace(Head(s)) THEN DropSpaces(Tail(s)) ELSE s

RECURSIVE CollapseSpaces(_)
\* text.replace(/\s+/g, " ")
CollapseSpaces(s) ==
    IF s = <<>> THEN <<>>
    ELSE IF IsSpace(Head(s)) THEN <<" ">> \o CollapseSpaces(DropSpaces(s))
    ELSE <<Head(s)>> \o CollapseSpaces(Tail(s))

RECURSIVE DropTrailingSpaces(_)
DropTrailingSpaces(s) ==
    IF s # <<>> /\ IsSpace(s[Len(s)]) THEN DropTrailingSpaces(SubSeq(s, 1, Len(s) - 1)) ELSE s

\* s.trim()
Trim(s) == DropTrailingSpaces(DropSpaces(s))

\* text.replace(/\s+/g, " ").trim()
NormalizeFactText(s) == Trim(CollapseSpaces(s))

\* String(x ?? "") of a text argument
TextOrEmpty(x) == IF x.t \in {"undef", "null"} THEN <<>> ELSE x.c

SwitchTheme(theme) ==
    [name |-> "switch_theme", theme |-> theme, fact_id |-> Undef, fact_text |-> SvNull]

RecordFact(id, text) ==
    [name |-> "record_fact", theme |-> Undef, fact_id |-> id, fact_text |-> text]

\* the invocations explored
ToolInvocations ==
    {SwitchTheme(th) : th \in {Str("light"), Str("dark"), Str("blue"), Undef}}
    \cup {RecordFact(id, text) :
            id \in {Undef, JNull, Str(""), Str("f1"), Str("f2"), Num("0")},
            text \in {SvNull, SvStr(<<" ", "a", " ", "\n", "b", " ">>)}}
    \cup {[name |-> "other_tool", theme |-> Undef, fact_id |-> Undef, fact_text |-> SvNull]}

\* the guard of line 323 without its processedFacts.current.has(id)
SkipsOnlyEmptyFact(id, facts) == id = ""

\* line 323: !id || processedFacts.current.has(id)
SkipsFact(id, facts) == id = "" \/ id \in facts

\* line 341: processedFacts.current.clear()
ClearedFacts(facts) == {}

\* onClientTool(invocation)
OnClientTool(inv) ==
    /\ phase # "constructed"
    /\ IF inv.name = "switch_theme"
        THEN /\ IF inv.theme \in {Str("light"), Str("dark")}
                    THEN /\ themeRequest' = inv.theme.v
                         /\ toolResult' = [called |-> TRUE, success |-> TRUE]
                    ELSE /\ toolResult' = [called |-> TRUE, success |-> FALSE]
                         /\ UNCHANGED themeRequest
             /\ UNCHANGED <<processedFacts, savesSinceClear, lastSave>>
        ELSE IF inv.name = "record_fact"
        THEN LET id == ToStringOrEmpty(inv.fact_id)
                 text == TextOrEmpty(inv.fact_text)
             IN  /\ IF SkipsFact(id, processedFacts)
                        THEN UNCHANGED <<processedFacts, savesSinceClear, lastSave>>
                        ELSE /\ processedFacts' = processedFacts \cup {id}
                             /\ lastSave' = [type |-> "save", factId |-> id,
                                             factText |-> NormalizeFactText(text)]
                             /\ savesSinceClear' =
                                    [savesSinceClear EXCEPT ![id] = @ + 1]
                 /\ toolResult' = [called |-> TRUE, success |-> TRUE]
                 /\ UNCHANGED themeRequest
        ELSE /\ toolResult' = [called |-> TRUE, success |-> FALSE]
             /\ UNCHANGED <<processedFacts, savesSinceClear, lastSave, themeRequest>>
    /\ UNCHANGED <<panelVars, gcsVars, act, extraction, routeCall, sink>>

\* onThreadChange
OnThreadChange ==
    /\ phase # "constructed"
    /\ processedFacts' = ClearedFacts(processedFacts)
    /\ savesSinceClear' = [id \in FactIds |-> 0]
    /\ UNCHANGED <<panelVars, gcsVars, lastSave, toolResult, themeRequest, act, extraction,
                   routeCall, sink>>

NextTools ==
    \/ Mount
    \/ Unmount
    \/ \E inv \in ToolInvocations : OnClientTool(inv)
    \/ OnThreadChange
    \/ HandleResetChat

\* The tool callbacks, thread changes and manual restarts of one panel
SpecTools == Init /\ [][NextTools]_vars

\* ------------------------------------------------------------------------
\* What the panel renders
\* ------------------------------------------------------------------------

\* a ?? b on a slot of ErrorState
NullishOr(a, b) == IF a = NULL THEN b ELSE a

\* a slot in a boolean position: null and "" are falsy
SlotTruthy(x) == x # NULL /\ x # ""

\* the overlay reads the session slot before the script slot
BlockingSessionFirst == NullishOr(errors.session, NullishOr(errors.script, errors.integration))

\* line 364
activeError == NullishOr(errors.session, errors.integration)

\* line 365
blockingError == NullishOr(errors.script, activeError)

\* line 392: the onRetry prop
onRetry ==
    IF SlotTruthy(blockingError) /\ errors.retryable THEN "handleResetChat" ELSE NULL

\* lines 383-385: the widget is rendered transparent and non-interactive
WidgetHidden == SlotTruthy(blockingError) \/ isInitializingSession

\* ------------------------------------------------------------------------
\* Diagnostics: onError, onLog and the element's chatkit.error / chatkit.log
\* ------------------------------------------------------------------------

\* onError also surfaces the error in the integration slot
OnErrorSurfaced ==
    /\ phase # "constructed"
    /\ sink' = [level |-> "error", label |-> "ChatKit error"]
    /\ errors' = [errors EXCEPT !.integration = "ChatKit error"]
    /\ UNCHANGED <<workflowId, phase, isMountedRef, registered, probeAtConstruction,
                   scriptStatus, isInitializingSession, widgetInstanceKey, timeoutId, kitRef,
                   gcsVars, toolVars, act, extraction, routeCall>>

\* onError({error}): console.error
OnError ==
    /\ phase # "constructed"
    /\ sink' = [level |-> "error", label |-> "ChatKit error"]
    /\ UNCHANGED <<panelVars, gcsVars, toolVars, act, extraction, routeCall>>

\* onLog({name, data}): console.debug
OnLog ==
    /\ phase # "constructed"
    /\ sink' = [level |-> "debug", label |-> "[chatkit]"]
    /\ UNCHANGED <<panelVars, gcsVars, toolVars, act, extraction, routeCall>>

\* the listener onErr of the element, between the effect and its cleanup
ElementError ==
    /\ phase = "mounted"
    /\ kitRef = "element"
    /\ sink' = [level |-> "error", label |-> "ck.error"]
    /\ UNCHANGED <<panelVars, gcsVars, toolVars, act, extraction, routeCall>>

\* the listener onLog of the element
ElementLog ==
    /\ phase = "mounted"
    /\ kitRef = "element"
    /\ sink' = [level |-> "debug", label |-> "[chatkit.event]"]
    /\ UNCHANGED <<panelVars, gcsVars, toolVars, act, extraction, routeCall>>

\* ------------------------------------------------------------------------
\* The panel with its script, credential and diagnostic callbacks and the
\* manual restart
\* ------------------------------------------------------------------------

\* the answers of the Session Endpoint explored together with restarts
PanelResponses ==
    { NetworkFailure("Failed to fetch"),
      Http(TRUE, "OK", "json", WithSecret(Str("cs_1"))),
      Http(FALSE, "Bad Request", "json", WithError("A")) }

NextPanel ==
    \/ Mount
    \/ Unmount
    \/ RegisterElement
    \/ ScriptLoadedSignal
    \/ \E detail \in ErrorDetails : ScriptErrorSignal(detail)
    \/ TimerFires
    \/ \E c \in 1..MaxCalls, cs \in CurrentSecrets : GcsStart(c, cs)
    \/ \E c \in 1..MaxCalls, resp \in PanelResponses : GcsSettle(c, resp)
    \/ OnResponseStart
    \/ HandleResetChat
    \/ OnError
    \/ OnLog
    \/ ElementError
    \/ ElementLog

\* One panel whose script, runtime and user invoke these callbacks at any
\* time, manual restart included
SpecPanel == Init /\ [][NextPanel]_vars

\* ------------------------------------------------------------------------
\* The panel with its script and tool callbacks, thread changes and the
\* manual restart
\* ------------------------------------------------------------------------

NextLifecycle ==
    \/ Mount
    \/ Unmount
    \/ RegisterElement
    \/ ScriptLoadedSignal
    \/ \E detail \in ErrorDetails : ScriptErrorSignal(detail)
    \/ TimerFires
    \/ OnResponseStart
    \/ \E inv \in ToolInvocations : OnClientTool(inv)
    \/ OnThreadChange
    \/ HandleResetChat

SpecLifecycle == Init /\ [][NextLifecycle]_vars

\* ------------------------------------------------------------------------
\* Overlapping getClientSecret calls, with the order in which they started
\* ------------------------------------------------------------------------

\* getClientSecret is called; a call that reaches its fetch joins the calls
\* in flight
GcsStartInOrder(c, currentSecret) ==
    /\ GcsCalled(c, currentSecret)
    /\ race' = IF isWorkflowConfigured THEN [race EXCEPT !.order = Append(@, c)] ELSE race

\* The request of call c settles; a credential it returns overtakes the
\* calls that started before it and are still in flight
GcsSettleInOrder(c, resp) ==
    /\ GcsSettled(c, resp)
    /\ LET order == race.order
           at == CHOOSE i \in 1..Len(order) : order[i] = c
           before == {order[i] : i \in 1..(at - 1)}
       IN  race' = [order |-> SelectSeq(order, LAMBDA d : d # c),
                    stale |-> IF RequestOutcome(resp).kind = "returned"
                                  THEN (race.stale \ {c}) \cup before
                                  ELSE race.stale \ {c},
                    lastStale |-> c \in race.stale]

NextRace ==
    \/ Mount
    \/ Unmount
    \/ \E c \in 1..MaxCalls, cs \in CurrentSecrets : GcsStartInOrder(c, cs)
    \/ \E c \in 1..MaxCalls, resp \in PanelResponses : GcsSettleInOrder(c, resp)
    \/ HandleResetChat

\* The calls of one panel, which a manual restart may make overlap
SpecRace == Init /\ [][NextRace]_vars

\* ------------------------------------------------------------------------
\* widgets.onAction
\* ------------------------------------------------------------------------

\* The texts handed to sendUserMessage, as sequences of their parts
QuizConfirmation(answer, quizId) ==
    <<"Recorded your answer \"", TemplateText(answer), "\" for quiz \"", TemplateText(quizId),
      "\".">>

\* (the dash and the apostrophe of the source are written in ASCII)
QuizApology == <<"Sorry - couldn't save your answer right now.">>

SurveyApology == <<"Sorry - couldn't save your survey right now.">>

\* the q4 flags of a survey payload explored, as keys
FlagKeys ==
    { Q4Prefix \o <<"n", "u", "t", "s">>,
      Q4Prefix \o <<"p", "o", "l", "l", "e", "n">>,
      Q4Prefix \o NoneOption,
      Q4Prefix \o Q4Prefix \o NoneOption,
      <<"x">> \o Q4Prefix \o NoneOption }

\* the values of a flag explored: true, false, 0 and the string "no"
FlagValues == {SvBool(TRUE), SvBool(FALSE), SvNum0, SvStr(<<"n", "o">>)}

RECURSIVE FlagEntries(_)
\* the sequences of at most n entries with distinct keys
FlagEntries(n) ==
    IF n = 0 THEN {<<>>}
    ELSE LET shorter == FlagEntries(n - 1)
         IN  shorter \cup
             { Append(p, [k |-> key, val |-> val]) :
                 p \in {q \in shorter : Len(q) = n - 1}, key \in FlagKeys, val \in FlagValues }

DistinctKeys(p) == \A i, j \in 1..Len(p) : i # j => p[i].k # p[j].k

\* the scalar answers of a survey payload explored: complete, or q2 missing
ScalarEntries ==
    { << [k |-> <<"q", "1">>, val |-> SvStr(<<"o", "i", "l", "y">>)],
         [k |-> <<"q", "2">>, val |-> SvStr(<<"y", "-", "a">>)],
         [k |-> <<"q", "3">>, val |-> SvStr(<<"n", "o">>)] >>,
      << [k |-> <<"q", "1">>, val |-> SvStr(<<"o", "i", "l", "y">>)],
         [k |-> <<"q", "3">>, val |-> SvStr(<<"n", "o">>)] >> }

\* the survey payloads explored, in the order of their entries
SurveyPayloads ==
    { sc \o fl : sc \in ScalarEntries, fl \in {f \in FlagEntries(MaxEntries) : DistinctKeys(f)} }

\* an action: a bare string, or an object with a type and a payload
StringAction(text) ==
    [isString |-> TRUE, type |-> Str(text), quizId |-> Undef, answer |-> Undef,
     hasForm |-> FALSE, formAnswer |-> Undef, entries |-> <<>>]

ObjectAction(type, quizId, answer, hasForm, formAnswer, entries) ==
    [isString |-> FALSE, type |-> type, quizId |-> quizId, answer |-> answer,
     hasForm |-> hasForm, formAnswer |-> formAnswer, entries |-> entries]

\* the actions explored
Actions ==
    { StringAction("question.submit"), StringAction("anything") }
    \cup { ObjectAction(Str("question.submit"), q, a, f, IF f THEN Str("C") ELSE Undef, <<>>) :
             q \in {Undef, Str("Q1")}, a \in {Undef, Str("B"), Str("")}, f \in BOOLEAN }
    \cup { ObjectAction(Str("skin.survey.submit"), Undef, Undef, FALSE, Undef, p) :
             p \in SurveyPayloads }
    \cup { ObjectAction(t, Undef, Undef, FALSE, Undef, <<>>) : t \in {Undef, Str("widget.other")} }

\* the widget items explored
WidgetItems ==
    { [id |-> Str("w1"), quizId |-> q, hasForm |-> f,
       formAnswer |-> IF f THEN Str("D") ELSE Undef] :
        q \in {Undef, Str("Q2")}, f \in BOOLEAN }

\* line 220
ActionType(action) ==
    IF action.isString THEN action.type.v ELSE ToStringOrEmpty(action.type)

\* lines 222-224: the form, then the answer
ActionAnswer(action, item) ==
    LET formAnswer == IF item.hasForm THEN item.formAnswer
                      ELSE IF action.hasForm THEN action.formAnswer
                      ELSE Undef
    IN  Coalesce(Coalesce(action.answer, formAnswer), JNull)

\* line 223
ActionQuizId(action, item) == Coalesce(Coalesce(action.quizId, item.quizId), JNull)

\* el?.sendUserMessage
CanSend == kitRef = "element"

Done(a, kind) == [a EXCEPT !.pc = "done", !.result = [kind |-> kind, ok |-> kind = "returned"]]

\* the widget items explored with an action: a survey action reads none of
\* the item but its id
ItemsFor(action) ==
    IF action.entries # <<>>
        THEN {[id |-> Str("w1"), quizId |-> Undef, hasForm |-> FALSE, formAnswer |-> Undef]}
        ELSE WidgetItems

\* onAction(action, widgetItem), from its call to its fetch or to its return
Dispatch(action, item) ==
    /\ LET type == ActionType(action)
           quizId == ActionQuizId(action, item)
           answer == ActionAnswer(action, item)
           fresh == [IdleAct EXCEPT !.reply = item.id, !.quizId = quizId, !.answer = answer]
       IN  IF type = "question.submit"
               THEN act' = [fresh EXCEPT !.pc = "posting", !.tag = "quiz", !.el = CanSend,
                                         !.posted = TRUE,
                                         !.confirmation = QuizConfirmation(answer, quizId),
                                         !.apology = QuizApology]
           ELSE IF type = "skin.survey.submit"
               THEN LET survey == NormalizeSurvey(action.entries)
                        summary == SurveySummary(survey)
                    IN  act' = [fresh EXCEPT !.pc = "posting", !.tag = "survey",
                                             !.el = CanSend, !.posted = TRUE,
                                             !.payload = action.entries,
                                             !.q4 = survey.q4,
                                             !.allergies = summary.allergies,
                                             !.confirmation =
                                                 <<"Survey saved:", summary.skinType,
                                                   summary.concern, summary.allergies,
                                                   summary.preference, summary.routine,
                                                   summary.sensitivity, summary.results>>,
                                             !.apology = SurveyApology]
           ELSE act' = Done([fresh EXCEPT !.tag = "other"], "returned")
    /\ UNCHANGED <<panelVars, gcsVars, toolVars, extraction, routeCall, sink>>

\* The widget runtime calls onAction. Dispatches share no state, so one
\* dispatch is followed to its end.
OnAction ==
    /\ phase = "mounted"
    /\ act.pc = "idle"
    /\ \E action \in Actions : \E item \in ItemsFor(action) : Dispatch(action, item)

\* the body the dispatch posted, as the route reads it
PostedQuizBody(a) == [kind |-> "obj", quizId |-> a.quizId, answer |-> a.answer]

PostedSurveyBody(a) ==
    [kind |-> "obj", q1 |-> Pick(a.payload, <<"q", "1">>), q2 |-> Pick(a.payload, <<"q", "2">>),
     q3 |-> Pick(a.payload, <<"q", "3">>)]

\* how the POST may settle: the route's answer, a 502 of a gateway before
\* it, or a network failure; "ok" or "failed" to the dispatch
PostOutcomes(a) ==
    LET answer == IF a.tag = "quiz" THEN QuizPOST(PostedQuizBody(a))
                  ELSE SurveyPOST(PostedSurveyBody(a))
    IN  {IF StatusOk(answer.status) THEN "ok" ELSE "failed", "failed"}

\* the catch block: the apology, when the element can send
Caught(a) ==
    IF a.el THEN [a EXCEPT !.pc = "sending-apology", !.messages = Append(@, a.apology)]
    ELSE Done(a, "returned")

\* the try block after a 2xx answer: the confirmation, when the element can send
Confirmed(a) ==
    IF a.el THEN [a EXCEPT !.pc = "sending-confirmation",
                           !.messages = Append(@, a.confirmation)]
    ELSE Done(a, "returned")

\* The POST of the dispatch settles
PostSettles(outcome) ==
    /\ act.pc = "posting"
    /\ outcome \in PostOutcomes(act)
    /\ LET a == [act EXCEPT !.response = outcome]
       IN  act' = IF outcome = "ok" THEN Confirmed(a) ELSE Caught(a)
    /\ UNCHANGED <<panelVars, gcsVars, toolVars, extraction, routeCall, sink>>

\* The sendUserMessage awaited by the dispatch settles
SendSettles(resolved) ==
    /\ act.pc \in {"sending-confirmation", "sending-apology"}
    /\ act' = IF resolved THEN Done(act, "returned")
              ELSE IF act.pc = "sending-confirmation" THEN Caught(act)
              ELSE Done(act, "threw")
    /\ UNCHANGED <<panelVars, gcsVars, toolVars, extraction, routeCall, sink>>

\* a panel with a real workflow identifier and the element registered
InitAction ==
    /\ Init
    /\ workflowId = <<"w", "f", "_", "6", "8">>
    /\ registered

NextAction ==
    \/ Mount
    \/ Unmount
    \/ OnAction
    \/ \E outcome \in {"ok", "failed"} : PostSettles(outcome)
    \/ \E resolved \in BOOLEAN : SendSettles(resolved)

\* The action dispatches of one panel
SpecAction == InitAction /\ [][NextAction]_vars

\* ------------------------------------------------------------------------
\* Calls of extractErrorDetail on the payloads of a bounded set of shapes
\* ------------------------------------------------------------------------

\* what a member may hold besides a string
NonStrings == {Undef, JNull, Num("5")}

\* the shapes of payload.error (strings a, b)
ErrorShapes(a, b) ==
    {Leaf1(x) : x \in NonStrings \cup {Str(a)}}
    \cup {Obj1(FALSE, Undef)}
    \cup {Obj1(TRUE, m) : m \in {Undef, Num("5"), Str(b)}}

\* the shapes of payload.details
DetailsShapes ==
    {Leaf2(x) : x \in NonStrings \cup {Str("C")}}
    \cup {Obj2(FALSE, Leaf1(Undef))}
    \cup {Obj2(TRUE, e) : e \in ErrorShapes("D", "E")}

ExtractPayloads ==
    {Payload(e, d, m, Undef) :
        e \in ErrorShapes("A", "B"), d \in DetailsShapes, m \in {Undef, Num("5"), Str("F")}}
    \cup {NonObject(x) : x \in {Undef, JNull, Str(""), Str("text"), Num("0"), Num("5")}}

InitExtract ==
    /\ InitPanel
    /\ workflowId = <<"w", "f", "_", "6", "8">>
    /\ registered
    /\ act = IdleAct
    /\ extraction \in {[payload |-> p, fallback |-> fb, called |-> FALSE, result |-> NULL] :
                          p \in ExtractPayloads, fb \in {"Bad Request", ""}}
    /\ routeCall = NoRouteCall

\* extractErrorDetail(payload, fallback) is called
ExtractCall ==
    /\ ~extraction.called
    /\ extraction' = [extraction EXCEPT !.called = TRUE,
                                        !.result = ExtractErrorDetail(extraction.payload,
                                                                      extraction.fallback)]
    /\ UNCHANGED <<panelVars, gcsVars, toolVars, act, routeCall, sink>>

NextExtract == ExtractCall

\* One call of extractErrorDetail
SpecExtract == InitExtract /\ [][NextExtract]_vars

\* ------------------------------------------------------------------------
\* Requests to the submission routes, with bodies of a bounded set of shapes
\* ------------------------------------------------------------------------

\* the requests explored: bodies that are no JSON, JSON that is no object,
\* and objects whose members are missing, falsy or truthy
RouteRequests ==
    LET scalars == {Undef, JNull, Str(""), Str("Q1"), Num("0"), [t |-> "bool", v |-> "false"]}
        values == {SvNull, SvStr(<<>>), SvStr(<<"d", "r", "y">>), SvBool(TRUE)}
        other(route) == {[route |-> route,
                          body |-> RouteBody(kind, Undef, Undef, SvNull, SvNull, SvNull)] :
                            kind \in {"unparsable", "null", "scalar"}}
    IN  {[route |-> "quiz", body |-> RouteBody("obj", quizId, answer, SvNull, SvNull, SvNull)] :
            quizId \in scalars, answer \in scalars}
        \cup {[route |-> "survey", body |-> RouteBody("obj", Undef, Undef, q1, q2, q3)] :
                q1 \in values, q2 \in values, q3 \in values}
        \cup other("quiz") \cup other("survey")

InitRoutes ==
    /\ InitPanel
    /\ workflowId = <<"w", "f", "_", "6", "8">>
    /\ registered
    /\ act = IdleAct
    /\ extraction = NoExtraction
    /\ routeCall \in {[NoRouteCall EXCEPT !.route = q.route, !.body = q.body] :
                         q \in RouteRequests}

\* The route answers the request
RoutePOST ==
    /\ ~routeCall.answered
    /\ routeCall' = [routeCall EXCEPT
                        !.answered = TRUE,
                        !.response = IF routeCall.route = "quiz" THEN QuizPOST(routeCall.body)
                                     ELSE SurveyPOST(routeCall.body)]
    /\ UNCHANGED <<panelVars, gcsVars, toolVars, act, extraction, sink>>

NextRoutes == RoutePOST

\* One request to one of the two routes
SpecRoutes == InitRoutes /\ [][NextRoutes]_vars

\* ------------------------------------------------------------------------
\* Properties of getClientSecret
\* ------------------------------------------------------------------------

\* the response is a success carrying a non-empty credential
CarriesSecret(resp) ==
    ~resp.net /\ resp.ok /\ resp.kind = "json" /\ Truthy(resp.data.client_secret)

\* the response is a success whose body has no client_secret member
LacksSecretField(resp) ==
    ~resp.net /\ resp.ok /\ (resp.kind \in {"empty", "nonjson"} \/ resp.data.client_secret = Undef)

\* the workflow identifier is unset or still the placeholder
Unconfigured == workflowId = <<>> \/ StartsWith(workflowId, PlaceholderPrefix)

\* call c settles in this step / is made in this step
Settles(c) == calls[c].pc = "fetching" /\ calls'[c].pc = "idle"

Starts(c) == calls[c].pc = "idle" /\ (calls'[c].pc = "fetching" \/ gcsResult'.kind = "rejected")

\* C1: a call that the Session Endpoint answers with an OK status and a
\* non-empty client_secret returns exactly that client_secret, and if the
\* component is mounted the session and integration slots are null when it
\* returns.
SuccessReturnsSecretAndClearsSlots ==
    [][\A c \in 1..MaxCalls, resp \in SessionResponses :
          (Settles(c) /\ CarriesSecret(resp) /\ GcsSettle(c, resp))
              => /\ gcsResult' = Returned(resp.data.client_secret)
                 /\ (isMountedRef => errors'.session = NULL /\ errors'.integration = NULL)]_vars

\* a call returned the second credential on a mounted component
SuccessWitness ==
    /\ gcsResult = Returned(Str("cs_2"))
    /\ phase = "mounted"
    /\ errors.session = NULL
    /\ errors.integration = NULL

\* C2: a call answered with an OK status and a body without client_secret
\* (empty, not JSON, or JSON without the member) rejects with the fixed
\* message "Missing client secret in response" and returns no credential.
MissingSecretRejects ==
    [][\A c \in 1..MaxCalls, resp \in SessionResponses :
          (Settles(c) /\ LacksSecretField(resp) /\ GcsSettle(c, resp))
              => gcsResult' = Rejected("Missing client secret in response")]_vars

\* a call was rejected for a missing credential and the slot shows it
MissingSecretWitness ==
    /\ gcsResult = Rejected("Missing client secret in response")
    /\ errors.session = "Missing client secret in response"
    /\ phase = "mounted"

\* a call settled as a failure: rejected, and on a mounted component the
\* session slot holds the message thrown, with retryable false
FailureReported ==
    /\ gcsResult'.kind = "rejected"
    /\ gcsResult'.message # NULL
    /\ isMountedRef => (errors'.session = gcsResult'.message /\ ~errors'.retryable)

\* C3: on every failure path of getClientSecret (no configuration, network
\* error, non-OK response, missing credential) the call rejects, and if the
\* component is mounted the session slot holds the failure's message with
\* retryable false when the call settles.
EveryFailureRejectsAndIsRecorded ==
    [][/\ \A c \in 1..MaxCalls, resp \in SessionResponses :
             (Settles(c) /\ ~CarriesSecret(resp) /\ GcsSettle(c, resp))
                 => /\ FailureReported
                    /\ resp.net => gcsResult'.message = resp.error
                    /\ (~resp.net /\ resp.ok) => gcsResult'.message = MissingSecretMessage
       /\ \A c \in 1..MaxCalls, cs \in CurrentSecrets :
             (Unconfigured /\ Starts(c) /\ GcsStart(c, cs))
                 => FailureReported /\ gcsResult'.message = ConfigMessage]_vars

\* a network failure was recorded on a mounted component
FailureWitness ==
    /\ gcsResult = Rejected("Failed to fetch")
    /\ errors.session = "Failed to fetch"
    /\ ~errors.retryable
    /\ phase = "mounted"

\* C4: with the workflow identifier unset or starting with the placeholder
\* prefix, every getClientSecret call rejects with the configuration
\* message, leaves the session slot holding that message with retryable
\* false and the initializing flag false, and issues no request.
UnconfiguredCallFailsWithoutRequest ==
    [][\A c \in 1..MaxCalls, cs \in CurrentSecrets :
          (Unconfigured /\ Starts(c) /\ GcsStart(c, cs))
              => /\ gcsResult' = Rejected(ConfigMessage)
                 /\ errors'.session = ConfigMessage
                 /\ ~errors'.retryable
                 /\ ~isInitializingSession'
                 /\ \A d \in 1..MaxCalls : calls'[d].pc # "fetching"]_vars

\* a call was rejected for the placeholder identifier
UnconfiguredWitness ==
    /\ StartsWith(workflowId, PlaceholderPrefix)
    /\ workflowId # PlaceholderPrefix
    /\ gcsResult = Rejected(ConfigMessage)
    /\ errors.session = ConfigMessage
    /\ ~isInitializingSession

\* ------------------------------------------------------------------------
\* Properties of the script-readiness probe
\* ------------------------------------------------------------------------

\* registered at construction: ready before the first effect, and no timer
ReadyFromConstruction ==
    probeAtConstruction => /\ (phase = "constructed" => scriptStatus = "ready")
                           /\ ~timeoutId

\* the timer fires with the element unregistered: error, with the fixed message
TimeoutReportsUnavailable ==
    (TimerFires /\ ~registered)
        => /\ scriptStatus' = "error"
           /\ errors'.script =
                "Error: ChatKit web component is unavailable. Verify that the script URL is reachable."

LeavesPending == ~probeAtConstruction /\ scriptStatus = "pending" /\ scriptStatus' # "pending"

BySignalOrTimer ==
    \/ ScriptLoadedSignal
    \/ \E detail \in ErrorDetails : ScriptErrorSignal(detail)
    \/ TimerFires

\* C10 as stated: registered at construction, the status is ready from the
\* first state and no timeout is ever armed; otherwise the status stays
\* pending until a loaded or error signal arrives, and the timer firing with
\* the element still unregistered makes it error with the fixed message.
ProbeAsStated ==
    /\ []ReadyFromConstruction
    /\ [][(LeavesPending => BySignalOrTimer) /\ TimeoutReportsUnavailable]_vars

\* C10 amended: as stated, except that the status also leaves pending when
\* the effect, at its first run, finds the element registered in the
\* meantime.
ProbeAmended ==
    /\ []ReadyFromConstruction
    /\ [][(LeavesPending => (BySignalOrTimer \/ (Mount /\ registered)))
          /\ TimeoutReportsUnavailable]_vars

\* the timer fired on a panel whose element was never registered
ProbeWitness ==
    /\ ~probeAtConstruction
    /\ ~registered
    /\ scriptStatus = "error"
    /\ errors.script =
         "Error: ChatKit web component is unavailable. Verify that the script URL is reachable."

\* ------------------------------------------------------------------------
\* Properties of record_fact
\* ------------------------------------------------------------------------

\* the save callback is called in this step with fact id
SavesNow(id) == savesSinceClear'[id] = savesSinceClear[id] + 1 /\ lastSave'.factId = id

\* C9: between two consecutive clears of the Processed-Fact Set (thread
\* change or manual restart) the save callback is called exactly once for
\* each non-empty fact id invoked, at the first invocation of that id, never
\* for the empty id, and every record_fact invocation reports success.
SaveOncePerFactAndInterval ==
    /\ [](\A id \in FactIds : savesSinceClear[id] <= 1 /\ (id = "" => savesSinceClear[id] = 0))
    /\ [][\A inv \in ToolInvocations :
             (inv.name = "record_fact" /\ OnClientTool(inv))
                 => LET id == IF inv.fact_id.t \in {"undef", "null"} THEN "" ELSE inv.fact_id.v
                    IN  /\ toolResult' = [called |-> TRUE, success |-> TRUE]
                        /\ SavesNow(id) <=> (id # "" /\ savesSinceClear[id] = 0)
                        /\ ~SavesNow(id) => UNCHANGED <<savesSinceClear, lastSave>>]_vars

\* a fact saved again after a thread change or restart, another one not yet
SaveWitness ==
    /\ savesSinceClear["f1"] = 1
    /\ savesSinceClear["f2"] = 0
    /\ processedFacts = {"f1"}
    /\ widgetInstanceKey = 1
    /\ lastSave = [type |-> "save", factId |-> "f1", factText |-> <<"a", " ", "b">>]

\* ------------------------------------------------------------------------
\* Properties of extractErrorDetail
\* ------------------------------------------------------------------------

\* the places searched, in the order of precedence: whether a string is
\* there, and the string
Candidates(p) ==
    << [is |-> p.error.t = "str", text |-> p.error.v],
       [is |-> p.error.t = "obj" /\ p.error.message.t = "str", text |-> p.error.message.v],
       [is |-> p.details.t = "str", text |-> p.details.v],
       [is |-> p.details.t = "obj" /\ p.details.error.t = "str", text |-> p.details.error.v],
       [is |-> p.details.t = "obj" /\ p.details.error.t = "obj"
                 /\ p.details.error.message.t = "str",
        text |-> p.details.error.message.v],
       [is |-> p.message.t = "str", text |-> p.message.v] >>

FirstMatch(p, fallback) ==
    LET cands == Candidates(p)
        hits == {i \in 1..Len(cands) : cands[i].is}
    IN  IF hits = {} THEN fallback
        ELSE cands[CHOOSE i \in hits : \A j \in hits : i <= j].text

\* C5: extractErrorDetail returns the first string found in the order error,
\* error.message, details, details.error, details.error.message, message,
\* and the fallback when there is none; members present but not strings are
\* passed over.
ExtractionIsFirstMatch ==
    extraction.called
        => extraction.result = FirstMatch(extraction.payload, extraction.fallback)

\* details.error.message was returned although message holds a string and
\* error holds an object whose message is not a string
ExtractionWitness ==
    /\ extraction.called
    /\ extraction.result = "E"
    /\ extraction.payload.message = Str("F")
    /\ extraction.payload.error = Obj1(TRUE, Num("5"))

\* ------------------------------------------------------------------------
\* Properties of the action dispatch
\* ------------------------------------------------------------------------

\* the positions of the truthy q4_<option> flags of a payload
TruthyFlags(p) ==
    {i \in 1..Len(p) : Len(p[i].k) >= 3 /\ SubSeq(p[i].k, 1, 3) = <<"q", "4", "_">>
                        /\ SvTruthy(p[i].val)}

\* the option names of the truthy flags, in the order of the payload
OptionsInOrder(p) ==
    LET flags == TruthyFlags(p)
        nth(j) == CHOOSE i \in flags : Cardinality({x \in flags : x < i}) = j - 1
    IN  [j \in 1..Cardinality(flags) |-> SubSeq(p[nth(j)].k, 4, Len(p[nth(j)].k))]

\* C6: the normalized q4 list is the payload-ordered list of the option names
\* of the truthy q4_<option> flags, except that it is exactly <<"none">> when
\* q4_none is among them; with no truthy flag it is empty and rendered "None".
SurveyListNormalized ==
    act.tag = "survey" =>
        LET p == act.payload
        IN  /\ act.q4 = IF \E i \in TruthyFlags(p) : p[i].k = <<"q", "4", "_", "n", "o", "n", "e">>
                            THEN << <<"n", "o", "n", "e">> >>
                            ELSE OptionsInOrder(p)
            /\ TruthyFlags(p) = {} => (act.q4 = <<>> /\ act.allergies = <<"N", "o", "n", "e">>)

\* q4_none and another flag were both set: the list collapsed to "none"
SurveyWitness ==
    /\ act.tag = "survey"
    /\ act.pc = "done"
    /\ Cardinality(TruthyFlags(act.payload)) = 2
    /\ act.q4 = <<NoneOption>>

\* C7: every dispatch completes by reporting ok: true, whatever the outcome of
\* the POST and of sending the message; an unrecognized tag posts nothing
\* and sends no message.
DispatchAlwaysReportsOk ==
    /\ act.pc = "done" => act.result = [kind |-> "returned", ok |-> TRUE]
    /\ act.tag = "other" => (~act.posted /\ act.messages = <<>>)

\* C8: a quiz or survey dispatch sends exactly one message: the confirmation
\* after a 2xx answer, the apology only after a failed POST; the apology is
\* never sent after a successful POST.
DispatchSendsOneFittingMessage ==
    /\ (act.pc = "done" /\ act.tag \in {"quiz", "survey"})
          => /\ Len(act.messages) = 1
             /\ act.response = "ok" => act.messages[1] = act.confirmation
             /\ act.response = "failed" => act.messages[1] = act.apology
    /\ \A i \in 1..Len(act.messages) :
          act.messages[i] = act.apology => act.response = "failed"

\* ------------------------------------------------------------------------
\* Properties of the overlay and of the error slots
\* ------------------------------------------------------------------------

\* C11: in every reachable state the error handed to the overlay is the
\* script slot if it is non-null, otherwise the session slot if it is
\* non-null, otherwise the integration slot; no lower-precedence message is
\* shown while a higher-precedence slot is set, and nothing is shown when
\* all three are null.
OverlayShowsMostSevereSlot ==
    /\ errors.script # NULL => blockingError = errors.script
    /\ (errors.script = NULL /\ errors.session # NULL) => blockingError = errors.session
    /\ (errors.script = NULL /\ errors.session = NULL) => blockingError = errors.integration
    /\ (errors.script = NULL /\ errors.session = NULL /\ errors.integration = NULL)
          => blockingError = NULL

\* a script failure and a session failure at once: the script failure is shown
OverlayWitness ==
    /\ phase = "mounted"
    /\ errors.script = "Error: load failed"
    /\ errors.session = "Failed to fetch"
    /\ blockingError = "Error: load failed"

\* C18: the retryable flag is false in every reachable state, so the retry
\* affordance is never handed to the overlay.
RetryNeverOffered == errors.retryable = FALSE /\ onRetry = NULL

\* a blocking error is shown without the retry affordance
RetryWitness ==
    /\ phase = "mounted"
    /\ SlotTruthy(blockingError)
    /\ gcsResult.kind = "rejected"
    /\ onRetry = NULL

Diagnostic == OnError \/ OnLog \/ ElementError \/ ElementLog

\* C20: runtime-reported errors and log events never change the error
\* state: the integration slot is null in every reachable state, so what
\* hides the widget or appears in the overlay is never an integration failure.
IntegrationNeverSurfaced ==
    /\ [](errors.integration = NULL /\ blockingError = NullishOr(errors.script, errors.session))
    /\ [][Diagnostic => UNCHANGED <<errors, scriptStatus, isInitializingSession>>]_vars

\* the runtime reported an error and the widget is shown, with no overlay error
DiagnosticWitness ==
    /\ phase = "mounted"
    /\ sink = [level |-> "error", label |-> "ChatKit error"]
    /\ blockingError = NULL
    /\ ~WidgetHidden

\* ------------------------------------------------------------------------
\* Properties of getClientSecret around teardown
\* ------------------------------------------------------------------------

\* C12: once the component has been torn down, a getClientSecret call,
\* whether started before or after teardown, still runs on (to its fetch, to
\* its return or to its throw) but changes none of the error slots, the
\* retryable flag or the initializing flag.
GcsAfterTeardownIsInert ==
    [][~isMountedRef =>
         \A c \in 1..MaxCalls :
            /\ (calls[c].pc = "idle" /\ \E cs \in CurrentSecrets : GcsStart(c, cs))
                  => /\ UNCHANGED <<errors, isInitializingSession>>
                     /\ \/ calls'[c].pc = "fetching"
                        \/ Unconfigured /\ gcsResult' = Rejected(ConfigMessage)
            /\ Settles(c)
                  => /\ UNCHANGED <<errors, isInitializingSession>>
                     /\ \/ gcsResult'.kind = "returned" /\ Truthy(gcsResult'.secret)
                        \/ gcsResult'.kind = "rejected" /\ gcsResult'.message # NULL]_vars

\* the last call failed after teardown: it threw, and the session slot and
\* the initializing flag are as the teardown left them
TeardownWitness ==
    /\ ~isMountedRef
    /\ \A c \in 1..MaxCalls : calls[c].pc = "idle"
    /\ gcsResult = Rejected("Failed to fetch")
    /\ errors.session = NULL
    /\ isInitializingSession

\* ------------------------------------------------------------------------
\* Properties of the submission routes
\* ------------------------------------------------------------------------

\* the body is an object whose required members are all truthy
RequiredPresent(q) ==
    /\ q.body.kind = "obj"
    /\ IF q.route = "quiz" THEN Truthy(q.body.quizId) /\ Truthy(q.body.answer)
       ELSE SvTruthy(q.body.q1) /\ SvTruthy(q.body.q2) /\ SvTruthy(q.body.q3)

\* C13: each route answers {ok: true} exactly when all its required fields
\* are present and truthy in the body (quiz: quizId and answer; survey: q1,
\* q2 and q3), and otherwise answers with status 400 and its fixed message;
\* an unparsable body is rejected with 400 like an empty one.
RoutesAnswerAsStated ==
    routeCall.answered
        => IF RequiredPresent(routeCall)
               THEN routeCall.response = [status |-> 200, ok |-> TRUE, error |-> NULL]
               ELSE routeCall.response =
                        [status |-> 400, ok |-> FALSE,
                         error |-> IF routeCall.route = "quiz" THEN "Missing quizId or answer"
                                   ELSE "Missing required fields"]

\* ------------------------------------------------------------------------
\* Properties of the initializing flag
\* ------------------------------------------------------------------------

\* call c reaches its fetch in this step
Fetches(c) == calls[c].pc = "idle" /\ calls'[c].pc = "fetching"

\* a call that reaches its fetch on a mounted component raises the flag when
\* it was called without a prior credential, and only then
RaisedOnFirstLoadOnly ==
    \A c \in 1..MaxCalls :
        (Fetches(c) /\ isMountedRef)
            => isInitializingSession' =
                   (IF calls'[c].hadSecret THEN isInitializingSession ELSE TRUE)

ScriptFailed == scriptStatus = "error" /\ errors.script # NULL

Callback ==
    \/ ScriptLoadedSignal
    \/ \E detail \in ErrorDetails : ScriptErrorSignal(detail)
    \/ TimerFires
    \/ \E c \in 1..MaxCalls : Settles(c) /\ \E resp \in SessionResponses : GcsSettle(c, resp)
    \/ OnResponseStart
    \/ OnThreadChange
    \/ \E inv \in ToolInvocations : OnClientTool(inv)

\* C16: after teardown no callback mutates controller state: once the
\* liveness flag is false, script signals, the timer, credential results,
\* response-start, thread-change and record_fact leave the error slots, the
\* script status, the initializing flag and the Processed-Fact Set unchanged.
NoMutationAfterTeardown ==
    [][(~isMountedRef /\ Callback)
          => UNCHANGED <<errors, scriptStatus, isInitializingSession, processedFacts>>]_vars

\* ------------------------------------------------------------------------
\* Properties of the manual restart
\* ------------------------------------------------------------------------

\* C19: a manual restart, from any state, empties the Processed-Fact Set,
\* sets the script status to ready if the element is registered and to
\* pending otherwise, sets the initializing flag, sets the three error slots
\* to null with retryable false, and increases the Widget Instance Key by
\* exactly one; the key changes on no other event.
RestartResetsPanel ==
    [][/\ HandleResetChat
            => /\ processedFacts' = {}
               /\ scriptStatus' = (IF registered THEN "ready" ELSE "pending")
               /\ isInitializingSession' = TRUE
               /\ errors' = [script |-> NULL, session |-> NULL, integration |-> NULL,
                             retryable |-> FALSE]
               /\ widgetInstanceKey' = widgetInstanceKey + 1
       /\ widgetInstanceKey' # widgetInstanceKey => HandleResetChat]_vars

\* restarted once after a fact was saved and the script had failed: the set
\* is empty, the slots are null, the status is pending with its timer armed
RestartWitness ==
    /\ phase = "mounted"
    /\ widgetInstanceKey = 1
    /\ lastSave.factId = "f1"
    /\ processedFacts = {}
    /\ scriptStatus = "pending"
    /\ timeoutId
    /\ ~probeAtConstruction
    /\ errors = createInitialErrors
    /\ isInitializingSession

\* ------------------------------------------------------------------------
\* Properties of overlapping getClientSecret calls
\* ------------------------------------------------------------------------

====
